---- MODULE Spec2Model ----
(***************************************************************************)
(* Scoring core of the psychometric-assessment pipelines:                  *)
(*   - AdaptiveConsensusAlgorithm (adaptive_consensus_algorithm.py)        *)
(*   - AdaptiveReliabilityCalculator (adaptive_reliability_calculator.py)  *)
(*   - the score acquisition of improved_transparent_pipeline.py that      *)
(*     feeds the consensus algorithm;                                      *)
(*   - the expansion of a consensus score to the five dimensions, the      *)
(*     reverse scoring, the weighted aggregation and the typology of       *)
(*     enhanced_transparent_pipeline.py, improved_transparent_pipeline.py  *)
(*     and smart_transparent_pipeline.py.                                  *)
(*                                                                         *)
(* Numbers: consensus scores are kept in hundredths (round(x, 2)),         *)
(* reliability terms in the unit One and reported in thousandths           *)
(* (round(x, 3)).  Dimension scores are kept in hundredths, trait scores    *)
(* as fractions num/den of hundredths, weights in fortieths.               *)
(***************************************************************************)
EXTENDS Integers, Sequences, FiniteSets, TLC

VARIABLES
    pc,              \* position of the resolution: idle, process, request, done, error
    caller,          \* who drives the algorithm: none, direct, pipeline
    initial_scores,  \* the list handed to adaptive_consensus
    scores,          \* the current round's list (parameter scores of the process)
    round_num,       \* parameter round_num of _adaptive_consensus_process
    consolidated,    \* int(consolidated_score) while get_additional_scores is awaited
    new_scores,      \* what get_additional_scores returned last
    judgments,       \* raw judgments obtained for the item so far
    requests,        \* calls of get_additional_scores made so far
    failures,        \* judgments that raised while being acquired
    shortfall,       \* TRUE once get_additional_scores returned fewer than asked
    result,          \* the dictionary built by _create_result
    err,             \* the exception that left adaptive_consensus, or "none"
    relIn,           \* arguments of calculate_adaptive_reliability
    relOut,          \* what calculate_adaptive_reliability returned
    pipeline,        \* the pipeline class in use: none, enhanced, improved, smart
    preserve_precision,      \* constructor switch of the improved pipeline
    individual_model_scores, \* per-evaluator dimension scores stored on the improved pipeline
    report_pc,       \* position of the report: idle, questions, done, raised
    total_questions, \* len(questions) of the report being processed
    all_question_results,    \* the results appended so far
    failed_questions,        \* counter of the smart pipeline
    raised,          \* the exception that left the pipeline call, or "none"
    big5_scores,     \* the five trait scores of the report
    mbti_type,       \* the typology code derived last
    scores_by_dimension,     \* the accumulator of calculate_big5_scores
    aggregate_calls, \* calls of calculate_big5_scores made on one pipeline object
    frames,          \* the call frames of the questions being processed side by side
    eval_pc,         \* position of evaluate_with_fallback: idle, loop, returned, raised
    evaluations,     \* calls of evaluate_with_fallback made on the evaluator
    preferred_models,        \* argument of the call
    attempt,         \* the loop variable of evaluate_with_fallback
    attempted_models,        \* models the call has tried
    clock,           \* time.time(), counted in model calls
    model_last_used, \* SmartEvaluator.model_last_used
    model_failures,  \* SmartEvaluator.model_failures: the recorded failures per model
    response,        \* what ollama.generate gave last
    returned_scores, \* the dictionary evaluate_with_fallback returned
    session_id,      \* ProgressTracker.session_id: "none" before a session is started
    total_files,     \* ProcessingState.total_files
    current_file_path,       \* ProcessingState.current_file_path: "" at first, "None" after a completion
    current_question_index,  \* ProcessingState.current_question_index
    processed_files, \* ProcessingState.processed_files
    file_progress,   \* ProcessingState.file_progress
    last_checkpoint_question_count,  \* ProgressTracker.last_checkpoint_question_count
    checkpoint_reason        \* why the checkpoint in the storage was saved last

vars == << pc, caller, initial_scores, scores, round_num, consolidated,
           new_scores, judgments, requests, failures, shortfall, result, err, relIn, relOut,
           pipeline, preserve_precision, individual_model_scores, report_pc,
           total_questions, all_question_results, failed_questions, raised,
           big5_scores, mbti_type, scores_by_dimension, aggregate_calls, frames,
           eval_pc, evaluations, preferred_models, attempt, attempted_models, clock,
           model_last_used, model_failures, response, returned_scores,
           session_id, total_files, current_file_path, current_question_index,
           processed_files, file_progress, last_checkpoint_question_count,
           checkpoint_reason >>

engineVars == << pc, caller, initial_scores, scores, round_num, consolidated,
                 new_scores, judgments, requests, failures, shortfall, result, err >>

relVars == << relIn, relOut >>

reportVars == << pipeline, preserve_precision, individual_model_scores, report_pc,
                 total_questions, all_question_results, failed_questions, raised,
                 big5_scores, mbti_type >>

aggVars == << scores_by_dimension, aggregate_calls >>

taskVars == << frames >>

evalVars == << eval_pc, evaluations, preferred_models, attempt, attempted_models, clock,
              model_last_used, model_failures, response, returned_scores >>

trackerVars == << session_id, total_files, current_file_path, current_question_index,
                 processed_files, file_progress, last_checkpoint_question_count,
                 checkpoint_reason >>

----------------------------------------------------------------------------
(* Bounds of the model *)

\* rounds explored per item (the recursion itself has no bound)
MaxRounds == 5

\* longest final_scores list handed to the reliability calculator
MaxFinalLen == 3

\* largest processing_rounds handed to the reliability calculator
MaxRelRounds == 4

----------------------------------------------------------------------------
(* AdaptiveConsensusAlgorithm.__init__ *)

initial_evaluators == 3

max_evaluators == 7

allowed_scores == {1, 3, 5}

\* how many scores _handle_major_disagreement_simple asks for
requested_count == 2

\* values a caller may put into initial_scores (2 and 4 are off the scale)
InputScores == {1, 2, 3, 5}

----------------------------------------------------------------------------
(* Helpers over score lists *)

RECURSIVE SumSeq(_)
SumSeq(s) == IF s = << >> THEN 0 ELSE Head(s) + SumSeq(Tail(s))

MaxSeq(s) == CHOOSE x \in {s[i] : i \in DOMAIN s} : \A j \in DOMAIN s : s[j] <= x

MinSeq(s) == CHOOSE x \in {s[i] : i \in DOMAIN s} : \A j \in DOMAIN s : x <= s[j]

\* Counter(scores)[v]
CountOf(s, v) == Cardinality({i \in DOMAIN s : s[i] = v})

\* all sequences over S of length lo..hi
SeqsOf(S, lo, hi) == UNION {[1..n -> S] : n \in lo..hi}

\* position k (1-based) of sorted(scores)
SortedAt(s, k) ==
    CHOOSE x \in {s[i] : i \in DOMAIN s} :
        /\ Cardinality({i \in DOMAIN s : s[i] < x}) < k
        /\ Cardinality({i \in DOMAIN s : s[i] <= x}) >= k

\* 2 * statistics.median(scores): the middle element, or the mean of the two middle ones
Median2(s) ==
    LET n == Len(s) IN
    IF n % 2 = 1 THEN 2 * SortedAt(s, (n + 1) \div 2)
    ELSE SortedAt(s, n \div 2) + SortedAt(s, n \div 2 + 1)

\* round(num / den, 2) in hundredths
Round2(num, den) == (200 * num + den) \div (2 * den)

\* faulty variant: the mean cut to two decimals instead of rounded
MeanTruncated(s) == (100 * SumSeq(s)) \div Len(s)

\* round(statistics.mean(scores), 2) in hundredths
MeanRounded(s) == Round2(SumSeq(s), Len(s))

----------------------------------------------------------------------------
(* _create_result *)

NoResult ==
    [ consensus_score |-> 0, final_scores |-> << >>, evaluator_count |-> 0,
      consensus_method |-> "none", processing_rounds |-> 0 ]

create_result(s, score100, method, rnd) ==
    [ consensus_score |-> score100, final_scores |-> s, evaluator_count |-> Len(s),
      consensus_method |-> method, processing_rounds |-> rnd ]

(* _handle_major_disagreement_simple, up to the call of get_additional_scores *)

has_median(s) == \E v \in {s[i] : i \in DOMAIN s} : CountOf(s, v) > 1

\* faulty variant: the mean is taken whether or not a value repeats
consolidated_score_mean_only(s) == SumSeq(s) \div Len(s)

\* int(consolidated_score)
consolidated_score(s) ==
    IF has_median(s) THEN Median2(s) \div 2 ELSE SumSeq(s) \div Len(s)

----------------------------------------------------------------------------
(* The five dimensions and the trait scores *)

\* the keys of a score dictionary, in the order the pipelines iterate them
dimensions ==
    << "openness_to_experience", "conscientiousness", "extraversion", "agreeableness",
       "neuroticism" >>

DimSet == { dimensions[i] : i \in DOMAIN dimensions }

\* a trait score num/den, in hundredths; den = 0 stands for a missing key
Frac(n, d) == [ num |-> n, den |-> d ]

\* big5_scores before any report, and the empty dictionary of the smart pipeline
NoScores == [ d \in DimSet |-> Frac(0, 0) ]

----------------------------------------------------------------------------
(* Questions processed side by side on one pipeline object: every call of     *)
(* process_single_question_with_new_algorithms has its own frame of locals    *)

\* questions in flight at the same time
MaxTasks == 2

Tasks == 1..MaxTasks

\* the locals of a call that has not started
NoFrame ==
    [ pc |-> "idle",
      question |-> [ dimension |-> "", is_reversed |-> FALSE ],
      initial_scores |-> << >>, scores |-> << >>, round_num |-> 0,
      consolidated |-> 0, returned |-> << >>, result |-> NoResult,
      reliability |-> [ overall_reliability |-> 0, consensus_quality |-> 0,
                        evaluator_diversity |-> 0, processing_efficiency |-> 0,
                        final_agreement |-> 0 ],
      final_adjusted_scores |-> [ d \in DimSet |-> 0 ] ]

----------------------------------------------------------------------------
(* SmartEvaluator.__init__ *)

cloud_models == << "deepseek-v3.1:671b-cloud", "gpt-oss:120b-cloud", "qwen3-vl:235b-cloud" >>

local_models == << "qwen3:8b", "deepseek-r1:8b", "mistral:instruct" >>

AllModels == { cloud_models[i] : i \in DOMAIN cloud_models }
                 \cup { local_models[i] : i \in DOMAIN local_models }

\* a response nothing has been asked for yet; in data, 0 stands for a trait the
\* response does not name, the other values are in tenths
NoResponse == [ kind |-> "none", data |-> [ d \in DimSet |-> 0 ] ]

----------------------------------------------------------------------------
(* ProgressTracker.__init__ and the files of a batch *)

\* the report files a batch may name
Files == { "a.json", "b.json" }

\* file_progress.get(file_path): no entry
NoProgress ==
    [ present |-> FALSE, total_questions |-> 0, processed_questions |-> 0,
      completed |-> FALSE ]

----------------------------------------------------------------------------
Init ==
    /\ pc = "idle"
    /\ caller = "none"
    /\ initial_scores = << >>
    /\ scores = << >>
    /\ round_num = 0
    /\ consolidated = 0
    /\ new_scores = << >>
    /\ judgments = 0
    /\ requests = 0
    /\ failures = 0
    /\ shortfall = FALSE
    /\ result = NoResult
    /\ err = "none"
    /\ relIn = [ original_scores |-> << >>, final_scores |-> << >>,
                 consensus_method |-> "none", processing_rounds |-> 0 ]
    /\ relOut = [ overall_reliability |-> 0, consensus_quality |-> 0,
                  evaluator_diversity |-> 0, processing_efficiency |-> 0,
                  final_agreement |-> 0 ]
    /\ pipeline = "none"
    /\ preserve_precision = TRUE
    /\ individual_model_scores = << >>
    /\ report_pc = "idle"
    /\ total_questions = 0
    /\ all_question_results = << >>
    /\ failed_questions = 0
    /\ raised = "none"
    /\ big5_scores = NoScores
    /\ mbti_type = ""
    /\ scores_by_dimension = [ d \in DimSet |-> << >> ]
    /\ aggregate_calls = << >>
    /\ frames = [ t \in Tasks |-> NoFrame ]
    /\ eval_pc = "idle"
    /\ evaluations = 0
    /\ preferred_models = << >>
    /\ attempt = 0
    /\ attempted_models = << >>
    /\ clock = 1
    /\ model_last_used = [ m \in AllModels |-> 0 ]
    /\ model_failures = [ m \in AllModels |-> 0 ]
    /\ response = NoResponse
    /\ returned_scores = [ d \in DimSet |-> 0 ]
    /\ session_id = "none"
    /\ total_files = 0
    /\ current_file_path = ""
    /\ current_question_index = 0
    /\ processed_files = << >>
    /\ file_progress = [ f \in Files |-> NoProgress ]
    /\ last_checkpoint_question_count = 0
    /\ checkpoint_reason = "none"

----------------------------------------------------------------------------
(* adaptive_consensus: validation, then the first round is entered *)

\* faulty variant: only the number of scores is validated
valid_initial_count_only(init) == Len(init) = 3

valid_initial(init) ==
    /\ Len(init) = 3
    /\ \A i \in DOMAIN init : init[i] \in allowed_scores

adaptive_consensus ==
    /\ pc = "idle"
    /\ \E init \in SeqsOf(InputScores, 2, 4) :
        /\ caller' = "direct"
        /\ initial_scores' = init
        /\ judgments' = Len(init)
        /\ IF valid_initial(init)
           THEN /\ pc' = "process"
                /\ scores' = init
                /\ round_num' = 1
                /\ err' = "none"
           ELSE /\ pc' = "error"
                /\ err' = "ValueError"
                /\ UNCHANGED << scores, round_num >>
    /\ UNCHANGED << consolidated, new_scores, requests, failures, shortfall, result,
                    relVars, reportVars, aggVars, taskVars, evalVars,
                    trackerVars >>

----------------------------------------------------------------------------
(* _adaptive_consensus_process with the handlers it calls *)

\* faulty variant: a difference of up to 2 already counts as a perfect consensus
branch_of_perfect_within_two(current_diff) ==
    IF current_diff <= 2 THEN "perfect"
    ELSE IF current_diff = 4 THEN "major"
    ELSE "abnormal"

\* faulty variant: the test for a minor disagreement comes first
branch_of_minor_first(current_diff) ==
    IF current_diff <= 2 THEN "minor"
    ELSE IF current_diff = 4 THEN "major"
    ELSE "abnormal"

\* faulty variant: a difference of 2 is handled as a major disagreement
branch_of_minor_requests(current_diff) ==
    IF current_diff = 0 THEN "perfect"
    ELSE IF current_diff = 2 \/ current_diff = 4 THEN "major"
    ELSE "abnormal"

\* the if/elif chain over current_diff
branch_of(current_diff) ==
    IF current_diff = 0 THEN "perfect"
    ELSE IF current_diff <= 2 THEN "minor"
    ELSE IF current_diff = 4 THEN "major"
    ELSE "abnormal"

adaptive_consensus_process ==
    /\ pc = "process"
    /\ LET current_diff == MaxSeq(scores) - MinSeq(scores) IN
       \/ /\ branch_of(current_diff) = "perfect"
          /\ result' = create_result(scores, 100 * MaxSeq(scores),
                                     "perfect_consensus", round_num)
          /\ pc' = "done"
          /\ UNCHANGED << consolidated, err >>
       \/ /\ branch_of(current_diff) = "minor"
          /\ result' = create_result(scores, MeanRounded(scores),
                                     "minor_consensus", round_num)
          /\ pc' = "done"
          /\ UNCHANGED << consolidated, err >>
       \/ /\ branch_of(current_diff) = "major"
          /\ round_num < MaxRounds
          /\ consolidated' = consolidated_score(scores)
          /\ pc' = "request"
          /\ UNCHANGED << result, err >>
       \/ /\ branch_of(current_diff) = "abnormal"
          /\ pc' = "error"
          /\ err' = "ValueError"
          /\ UNCHANGED << consolidated, result >>
    /\ UNCHANGED << caller, initial_scores, scores, round_num, new_scores, judgments,
                    requests, failures, shortfall, relVars, reportVars, aggVars, taskVars, evalVars,
                    trackerVars >>

\* faulty variant: the consolidated score is left out of the next round
\* whenever new scores arrived
all_scores_new_only(c, new) == IF new = << >> THEN << c >> ELSE new

\* faulty variant: the consolidated score is put after the new scores
all_scores_appended(c, new) == new \o << c >>

\* all_scores = [int(consolidated_score)] + new_scores
all_scores(c, new) == << c >> \o new

\* the tail of _handle_major_disagreement_simple once new_scores is there
next_round(new) ==
    /\ new_scores' = new
    /\ scores' = all_scores(consolidated, new)
    /\ round_num' = round_num + 1
    /\ judgments' = judgments + Len(new)
    /\ requests' = requests + 1
    /\ shortfall' = (shortfall \/ Len(new) < requested_count)
    /\ pc' = "process"

(* get_additional_scores as an arbitrary callable: it returns up to the       *)
(* requested number of scale values, or raises                                *)
request_more_returns ==
    /\ pc = "request"
    /\ caller = "direct"
    /\ \E new \in SeqsOf(allowed_scores, 0, requested_count) :
        next_round(new)
    /\ UNCHANGED << caller, initial_scores, consolidated, failures, result, err,
                    relVars, reportVars, aggVars, taskVars, evalVars,
                    trackerVars >>

request_more_fails ==
    /\ pc = "request"
    /\ caller = "direct"
    /\ pc' = "error"
    /\ err' = "EvaluatorFailure"
    /\ requests' = requests + 1
    /\ UNCHANGED << caller, initial_scores, scores, round_num, consolidated,
                    new_scores, judgments, failures, shortfall, result, relVars, reportVars, aggVars, taskVars, evalVars,
                    trackerVars >>

----------------------------------------------------------------------------
(* improved_transparent_pipeline.py: the acquisition of the judgments.        *)
(* evaluate_single_question either returns the model's score on the item's    *)
(* primary dimension or raises RuntimeError once every fallback model failed. *)

Outcomes ==
    [ok : {TRUE}, score : allowed_scores] \cup [ok : {FALSE}, score : {0}]

\* body of the try/except around evaluate_single_question
score_of(o) == IF o.ok THEN o.score ELSE 3

FailedIn(os) == Cardinality({i \in DOMAIN os : ~os[i].ok})

\* _get_adaptive_consensus: three judgments, then adaptive_consensus
get_adaptive_consensus ==
    /\ pc = "idle"
    /\ \E os \in [1..initial_evaluators -> Outcomes] :
        LET init == [i \in 1..initial_evaluators |-> score_of(os[i])] IN
        /\ caller' = "pipeline"
        /\ failures' = FailedIn(os)
        /\ initial_scores' = init
        /\ judgments' = Len(init) - FailedIn(os)
        /\ IF valid_initial(init)
           THEN /\ pc' = "process"
                /\ scores' = init
                /\ round_num' = 1
                /\ err' = "none"
           ELSE /\ pc' = "error"
                /\ err' = "ValueError"
                /\ UNCHANGED << scores, round_num >>
    /\ UNCHANGED << consolidated, new_scores, requests, shortfall, result,
                    relVars, reportVars, aggVars, taskVars, evalVars,
                    trackerVars >>

\* _get_additional_scores(needed_count = 2), called back by the algorithm
get_additional_scores ==
    /\ pc = "request"
    /\ caller = "pipeline"
    /\ \E os \in [1..requested_count -> Outcomes] :
        LET additional_scores == [i \in 1..requested_count |-> score_of(os[i])] IN
        /\ new_scores' = additional_scores
        /\ scores' = all_scores(consolidated, additional_scores)
        /\ round_num' = round_num + 1
        /\ judgments' = judgments + Len(additional_scores) - FailedIn(os)
        /\ failures' = failures + FailedIn(os)
        /\ requests' = requests + 1
        /\ shortfall' = (shortfall \/ Len(additional_scores) < requested_count)
        /\ pc' = "process"
    /\ UNCHANGED << caller, initial_scores, consolidated, result, err, relVars, reportVars, aggVars, taskVars, evalVars,
                    trackerVars >>

----------------------------------------------------------------------------
(* _remove_max_bias: the scores sorted by distance from the median (a stable  *)
(* sort), without the last remove_count of them                               *)

\* 2 * abs(score - median_score)
bias2(s, i) ==
    LET d == 2 * s[i] - Median2(s) IN IF d < 0 THEN -d ELSE d

\* place of scores[i] in scored_scores after the sort
sorted_place(s, i) ==
    Cardinality({j \in DOMAIN s : bias2(s, j) < bias2(s, i)})
    + Cardinality({j \in DOMAIN s : j < i /\ bias2(s, j) = bias2(s, i)}) + 1

remove_max_bias(s, remove_count) ==
    [k \in 1..(Len(s) - remove_count) |->
        s[CHOOSE i \in DOMAIN s : sorted_place(s, i) = k]]

----------------------------------------------------------------------------
(* AdaptiveReliabilityCalculator.  One is 1.0; in this unit every quotient    *)
(* below is exact for lists of up to 6 scores.  The standard deviation is     *)
(* irrational: a value that contains it is kept as a rational part and the    *)
(* coefficient of the deviation, and is rounded exactly when it is reported.  *)

One == 6 * 1000

\* x / 10 of One
Tenths(x) == x * (One \div 10)

MinOf(a, b) == IF a < b THEN a ELSE b

MaxOf(a, b) == IF a > b THEN a ELSE b

\* len(set(scores))
DistinctCount(s) == Cardinality({s[i] : i \in DOMAIN s})

RECURSIVE IsqrtBetween(_, _, _)
IsqrtBetween(v, lo, hi) ==
    IF lo >= hi THEN lo
    ELSE LET mid == (lo + hi + 1) \div 2 IN
         IF mid * mid <= v THEN IsqrtBetween(v, mid, hi)
         ELSE IsqrtBetween(v, lo, mid - 1)

\* floor(sqrt(v)) for 0 <= v < 2^31
Isqrt(v) == IsqrtBetween(v, 0, 46340)

RECURSIVE SumSquares(_)
SumSquares(s) == IF s = << >> THEN 0 ELSE Head(s) * Head(s) + SumSquares(Tail(s))

\* statistics.stdev(scores) ** 2 == VarNum(scores) / VarDen(scores)
VarNum(s) == Len(s) * SumSquares(s) - SumSeq(s) * SumSeq(s)

VarDen(s) == Len(s) * (Len(s) - 1)

\* round(x - c * stdev(s), 3) in thousandths, for x and c in the unit One
\* (c = 0 when the deviation does not enter)
Round3(x, c, s) ==
    IF c = 0 THEN (x + One \div 2000) \div (One \div 1000)
    ELSE LET vd == VarDen(s)
             q == c * c * VarNum(s) * vd
             r == Isqrt(q)
             e == IF r * r = q THEN 0 ELSE 1
             den == (One \div 1000) * vd
         IN  (x * vd + den \div 2 - r - e) \div den

\* faulty variant: 0.1 for 1.0 in the table
method_scores_perfect_low(method) ==
    CASE method = "perfect_consensus" -> Tenths(1)
      [] method = "minor_consensus" -> Tenths(8)
      [] method = "median_consensus" -> Tenths(7)
      [] method = "average_consensus" -> Tenths(6)
      [] method = "extended_consensus" -> Tenths(5)
      [] method = "max_divergence_consensus" -> Tenths(4)
      [] OTHER -> Tenths(3)

\* method_scores.get(consensus_method, 0.3)
method_scores(method) ==
    CASE method = "perfect_consensus" -> Tenths(10)
      [] method = "minor_consensus" -> Tenths(8)
      [] method = "median_consensus" -> Tenths(7)
      [] method = "average_consensus" -> Tenths(6)
      [] method = "extended_consensus" -> Tenths(5)
      [] method = "max_divergence_consensus" -> Tenths(4)
      [] OTHER -> Tenths(3)

\* method_efficiency.get(consensus_method, 0.5)
method_efficiency(method) ==
    CASE method = "perfect_consensus" -> Tenths(10)
      [] method = "minor_consensus" -> Tenths(9)
      [] method = "median_consensus" -> Tenths(8)
      [] method = "average_consensus" -> Tenths(7)
      [] method = "extended_consensus" -> Tenths(6)
      [] method = "max_divergence_consensus" -> Tenths(5)
      [] OTHER -> Tenths(5)

\* faulty variant: the sum is not capped at 1.0
assess_consensus_quality_uncapped(original, final, method) ==
    LET original_range == MaxSeq(original) - MinSeq(original)
        final_range == MaxSeq(final) - MinSeq(final)
    IN  method_scores(method)
        + (IF original_range > 0
           THEN MinOf(((original_range - final_range) * Tenths(2)) \div original_range,
                      Tenths(2))
           ELSE 0)

assess_consensus_quality(original, final, method) ==
    LET base_score == method_scores(method)
        original_range == MaxSeq(original) - MinSeq(original)
        final_range == MaxSeq(final) - MinSeq(final)
        quality_adjustment ==
            IF original_range > 0
            THEN MinOf(((original_range - final_range) * Tenths(2)) \div original_range,
                       Tenths(2))
            ELSE 0
    IN  MinOf(base_score + quality_adjustment, One)

assess_evaluator_diversity(original, final, rounds) ==
    LET original_diversity == (DistinctCount(original) * One) \div Len(original)
        final_diversity == (DistinctCount(final) * One) \div Len(final)
        round_efficiency == MaxOf(0, One - (rounds - 1) * Tenths(2))
    IN  (4 * original_diversity) \div 10 + (4 * final_diversity) \div 10
        + (2 * round_efficiency) \div 10

assess_processing_efficiency(rounds, method) ==
    LET round_efficiency ==
            IF rounds = 1 THEN One
            ELSE IF rounds = 2 THEN Tenths(8)
            ELSE MaxOf(Tenths(4), One - (rounds - 2) * Tenths(2))
    IN  (round_efficiency + method_efficiency(method)) \div 2

\* the agreement is rational - stdev_coef * stdev(final_scores)
assess_final_agreement(final) ==
    IF Len(final) < 2 THEN [ rational |-> One, stdev_coef |-> 0 ]
    ELSE
      LET \* std_dev / max_possible_std >= 1: consistency_score is 0.0
          no_consistency == VarNum(final) >= 4 * VarDen(final)
          max_count == CHOOSE c \in 1..Len(final) :
                          /\ \E i \in DOMAIN final : CountOf(final, final[i]) = c
                          /\ \A i \in DOMAIN final : CountOf(final, final[i]) <= c
          mode_ratio == (max_count * One) \div Len(final)
          score_range == MaxSeq(final) - MinSeq(final)
          range_score == MaxOf(0, One - (score_range * One) \div 4)
      IN  [ rational |-> (4 * (IF no_consistency THEN 0 ELSE One)) \div 10
                         + (4 * mode_ratio) \div 10 + (2 * range_score) \div 10,
            stdev_coef |-> IF no_consistency THEN 0 ELSE (4 * (One \div 2)) \div 10 ]

\* the dictionary returned by calculate_adaptive_reliability (thousandths)
reliability_of(original, final, method, rounds) ==
    LET consensus_quality == assess_consensus_quality(original, final, method)
        diversity_score == assess_evaluator_diversity(original, final, rounds)
        efficiency_score == assess_processing_efficiency(rounds, method)
        agreement_score == assess_final_agreement(final)
        overall == (4 * consensus_quality) \div 10 + (3 * diversity_score) \div 10
                   + (2 * efficiency_score) \div 10 + agreement_score.rational \div 10
    IN  [ overall_reliability |-> Round3(overall, agreement_score.stdev_coef \div 10, final),
          consensus_quality |-> Round3(consensus_quality, 0, final),
          evaluator_diversity |-> Round3(diversity_score, 0, final),
          processing_efficiency |-> Round3(efficiency_score, 0, final),
          final_agreement |-> Round3(agreement_score.rational,
                                     agreement_score.stdev_coef, final) ]

\* the consensus_method values the two classes name
Methods ==
    { "perfect_consensus", "minor_consensus", "median_consensus", "average_consensus",
      "extended_consensus", "max_divergence_consensus", "forced_consensus" }

\* one call per resolved item
calculate_adaptive_reliability ==
    /\ relIn.consensus_method = "none"
    /\ \E original \in [1..initial_evaluators -> allowed_scores],
          final \in SeqsOf(allowed_scores, 1, MaxFinalLen),
          method \in Methods,
          rounds \in 1..MaxRelRounds :
        /\ relIn' = [ original_scores |-> original, final_scores |-> final,
                      consensus_method |-> method, processing_rounds |-> rounds ]
        /\ relOut' = reliability_of(original, final, method, rounds)
    /\ UNCHANGED << engineVars, reportVars, aggVars, taskVars, evalVars,
                    trackerVars >>

NextRel == calculate_adaptive_reliability

SpecRel == Init /\ [][NextRel]_vars

Next ==
    \/ adaptive_consensus
    \/ adaptive_consensus_process
    \/ request_more_returns
    \/ request_more_fails
    \/ get_adaptive_consensus
    \/ get_additional_scores

Spec == Init /\ [][Next]_vars

----------------------------------------------------------------------------
(* Bounds of the report model *)

\* questions of one report
MaxItems == 2

\* calls of calculate_big5_scores made on one pipeline object
MaxCalls == 3

----------------------------------------------------------------------------
(* Inputs of the report model *)

\* question_data['dimension'] of a question: two recognised names and a missing one
DimensionInputs == { "Extraversion", "Neuroticism", "" }

\* consensus scores the consensus algorithm hands over, in hundredths
\* (2.33 is the mean of [1, 3, 3])
ConsensusScores == { 100, 233, 300, 500 }

\* one evaluator's stored big5_scores; 0 stands for a key the dictionary lacks
ModelScores(v) == [ d \in DimSet |-> v ]

PartialModelScores == [ d \in DimSet |-> IF d = "extraversion" THEN 500 ELSE 0 ]

\* what a caller may have stored in individual_model_scores for the questions
ModelScoreSets ==
    { << >>, << ModelScores(100) >>, << ModelScores(100), ModelScores(500) >>,
      << PartialModelScores >> }

\* final_scores a resolved question of the smart pipeline may carry
SmartFinalScores ==
    { [ d \in DimSet |-> 300 ],
      [ d \in DimSet |-> IF d = "extraversion" THEN 500 ELSE 300 ],
      [ d \in DimSet |-> IF d = "neuroticism" THEN 100 ELSE 400 ] }

----------------------------------------------------------------------------
(* Expansion of a consensus score to the five dimensions *)

\* dimension_map.get(name, default)
dimension_map_get(name, default) ==
    CASE name = "Openness to Experience" -> "openness_to_experience"
      [] name = "Conscientiousness" -> "conscientiousness"
      [] name = "Extraversion" -> "extraversion"
      [] name = "Agreeableness" -> "agreeableness"
      [] name = "Neuroticism" -> "neuroticism"
      [] OTHER -> default

\* EnhancedTransparentPipeline._get_primary_dimension
enhanced_get_primary_dimension(name) == dimension_map_get(name, "conscientiousness")

\* ImprovedTransparentPipeline._get_primary_dimension and _map_dimension_name
improved_get_primary_dimension(name) == dimension_map_get(name, name)

\* round(x) of Python for x in hundredths: to the nearest integer, halves to even
PyRound(h) ==
    LET q == h \div 100
        r == h % 100
    IN  IF r < 50 THEN q
        ELSE IF r > 50 THEN q + 1
        ELSE IF q % 2 = 0 THEN q ELSE q + 1

\* score = int(round(consensus_score)) and the correction of a score off the scale
snap(h) ==
    LET score == PyRound(h)
    IN  IF score \in {1, 3, 5} THEN 100 * score
        ELSE IF score <= 2 THEN 100
        ELSE IF score >= 4 THEN 500
        ELSE 300

\* the loop over the five dimensions of the neutral-fill expansion
expand_neutral(h, primary) ==
    [ d \in DimSet |-> IF d = primary THEN snap(h) ELSE 300 ]

\* EnhancedTransparentPipeline._expand_consensus_score_to_all_dimensions
enhanced_expand(h, name) == expand_neutral(h, enhanced_get_primary_dimension(name))

\* ImprovedTransparentPipeline._expand_consensus_score_to_all_dimensions_original
improved_expand_original(h, name) == expand_neutral(h, improved_get_primary_dimension(name))

\* ImprovedTransparentPipeline._get_all_model_scores: the non-empty dictionaries
get_all_model_scores(ims) == SelectSeq(ims, LAMBDA m : \E d \in DimSet : m[d] # 0)

\* model[dimension] raises KeyError for a dictionary that lacks the dimension
improved_expand_raises(name, ims) ==
    LET primary == improved_get_primary_dimension(name)
        all_model_scores == get_all_model_scores(ims)
    IN  \E d \in DimSet \ {primary} :
            \E i \in DOMAIN all_model_scores : all_model_scores[i][d] = 0

\* ImprovedTransparentPipeline._expand_consensus_score_to_all_dimensions_improved
\* with preserve_precision set
improved_expand_precise(h, name, ims) ==
    LET primary == improved_get_primary_dimension(name)
        all_model_scores == get_all_model_scores(ims)
    IN  [ d \in DimSet |->
            IF d = primary THEN h
            ELSE IF all_model_scores # << >>
                 THEN SumSeq([ i \in DOMAIN all_model_scores |-> all_model_scores[i][d] ])
                        \div Len(all_model_scores)
                 ELSE 300 ]

\* faulty variant: the scale is shifted instead of mirrored (1 -> 3 -> 5 -> 1)
reverse_score_shifted(v) == IF v = 500 THEN 100 ELSE v + 200

\* ReverseScoringProcessor.reverse_score: v becomes (1 + 5) - v
reverse_score(v) == 600 - v

\* the reverse scoring applied to every trait of the expanded scores
final_adjusted_scores(expanded, is_reversed) ==
    IF is_reversed THEN [ d \in DimSet |-> reverse_score(expanded[d]) ] ELSE expanded

\* the result dictionary of one question
question_result(name, is_reversed, h, expanded) ==
    [ dimension |-> name, is_reversed |-> is_reversed, consensus_score |-> h,
      expanded |-> expanded, success |-> TRUE,
      final_adjusted_scores |-> final_adjusted_scores(expanded, is_reversed) ]

----------------------------------------------------------------------------
(* Weighted aggregation *)

\* weight = 0.7, in fortieths
primary_weight == 28

\* weight = 0.075, in fortieths
other_weight == 3

\* faulty variant: an unrecognised name falls back to conscientiousness, as in
\* _get_primary_dimension
standard_primary_dimension_defaulted(name) == dimension_map_get(name, "conscientiousness")

\* dimension_map.get(primary_dimension, '') of calculate_big5_scores
standard_primary_dimension(name) == dimension_map_get(name, "")

\* faulty variant: every dimension weighted alike
weight_of_equal(d, name) == other_weight

\* the weight of dimension d for a question of the given dimension name
weight_of(d, name) ==
    IF d = standard_primary_dimension(name) /\ standard_primary_dimension(name) # ""
    THEN primary_weight ELSE other_weight

\* the test a score passes before it is appended
accepts(p, score) ==
    IF p = "enhanced" THEN score \in {100, 300, 500} ELSE TRUE

\* faulty variant: the accumulator is kept on the object between calls
kept_scores_by_dimension == scores_by_dimension

\* scores_by_dimension as calculate_big5_scores creates it on entry
empty_scores_by_dimension == [ d \in DimSet |-> << >> ]

\* one iteration of the loop over question_results
collect_one(acc, r, p) ==
    [ d \in DimSet |->
        IF accepts(p, r.final_adjusted_scores[d])
        THEN Append(acc[d], [ score |-> r.final_adjusted_scores[d],
                              weight |-> weight_of(d, r.dimension) ])
        ELSE acc[d] ]

RECURSIVE collect(_, _, _)
collect(acc, rs, p) ==
    IF rs = << >> THEN acc ELSE collect(collect_one(acc, Head(rs), p), Tail(rs), p)

weighted_sum(ws) == SumSeq([ i \in DOMAIN ws |-> ws[i].score * ws[i].weight ])

\* faulty variant: divides by the number of scores instead of the weights
total_weight_count(ws) == Len(ws)

total_weight(ws) == SumSeq([ i \in DOMAIN ws |-> ws[i].weight ])

\* round(num / den) to the nearest integer
RoundDiv(num, den) == (2 * num + den) \div (2 * den)

\* max(1.0, min(5.0, x)) for x = num / den
clamp(num, den) ==
    IF num < 100 * den THEN Frac(100 * den, den)
    ELSE IF num > 500 * den THEN Frac(500 * den, den)
    ELSE Frac(num, den)

\* EnhancedTransparentPipeline.calculate_big5_scores, from the filled accumulator:
\* round(weighted_avg, 2), or 3.0 for a dimension without data
enhanced_big5(acc) ==
    [ d \in DimSet |->
        IF acc[d] # << >> /\ total_weight(acc[d]) > 0
        THEN Frac(RoundDiv(weighted_sum(acc[d]), total_weight(acc[d])), 1)
        ELSE Frac(300, 1) ]

\* ImprovedTransparentPipeline.calculate_big5_scores, from the filled accumulator:
\* the weighted average clamped to [1, 5], or 3.0 for a dimension without data
improved_big5(acc) ==
    [ d \in DimSet |->
        IF acc[d] # << >> /\ total_weight(acc[d]) > 0
        THEN clamp(weighted_sum(acc[d]), total_weight(acc[d]))
        ELSE Frac(300, 1) ]

calculate_big5_scores(acc, p) ==
    IF p = "enhanced" THEN enhanced_big5(acc) ELSE improved_big5(acc)

\* the results calculate_big5_averages of the smart pipeline counts
valid_results(rs) == SelectSeq(rs, LAMBDA r : r.success)

\* SmartTransparentPipeline.calculate_big5_averages: {} without a valid result
calculate_big5_averages(rs) ==
    LET valid == valid_results(rs)
    IN  IF rs = << >> \/ valid = << >> THEN NoScores
        ELSE [ d \in DimSet |->
                 Frac(SumSeq([ i \in DOMAIN valid |-> valid[i].final_adjusted_scores[d] ]),
                      Len(valid)) ]

----------------------------------------------------------------------------
(* Typology *)

\* big5_scores.get(trait, 3)
get_or_3(b, d) == IF b[d].den = 0 THEN Frac(300, 1) ELSE b[d]

\* x <= 3 and x > 3 for a trait score
AtMost3(x) == x.num <= 300 * x.den

\* E + (5 - N) > (5 - E) + N, both sides over the denominator E.den * N.den
e_over_i(E, N) ==
    LET e_score == E.num * N.den + (500 * N.den - N.num) * E.den
        i_score == (500 * E.den - E.num) * N.den + N.num * E.den
    IN  e_score > i_score

\* EnhancedTransparentPipeline.calculate_mbti_type and
\* SmartTransparentPipeline.infer_mbti_type after its emptiness test
calculate_mbti_type(b) ==
    LET O == get_or_3(b, "openness_to_experience")
        C == get_or_3(b, "conscientiousness")
        E == get_or_3(b, "extraversion")
        A == get_or_3(b, "agreeableness")
        N == get_or_3(b, "neuroticism")
    IN  (IF e_over_i(E, N) THEN "E" ELSE "I")
          \o (IF AtMost3(O) THEN "S" ELSE "N")
          \o (IF AtMost3(A) THEN "T" ELSE "F")
          \o (IF ~AtMost3(C) THEN "J" ELSE "P")

\* SmartTransparentPipeline.infer_mbti_type
infer_mbti_type(b) == IF b = NoScores THEN "Unknown" ELSE calculate_mbti_type(b)

\* x < 2.5 and x > 3.5 for a trait score
Below25(x) == 2 * x.num < 500 * x.den

Above35(x) == 2 * x.num > 700 * x.den

\* ImprovedTransparentPipeline._calculate_mbti_type
improved_calculate_mbti_type(b) ==
    LET e_score == get_or_3(b, "extraversion")
        s_score == get_or_3(b, "conscientiousness")
        t_score == get_or_3(b, "agreeableness")
        f_score == get_or_3(b, "neuroticism")
    IN  (IF Below25(e_score) THEN "I" ELSE "E")
          \o (IF Below25(f_score) THEN "N" ELSE "S")
          \o (IF Above35(t_score) THEN "T" ELSE "F")
          \o (IF Above35(f_score) THEN "J" ELSE "P")
          \o (IF Above35(s_score) THEN "P" ELSE "J")

----------------------------------------------------------------------------
(* Processing of one report *)

\* EnhancedTransparentPipeline.process_single_report and
\* SmartTransparentPipeline.process_single_report up to the loop over the questions
process_single_report ==
    /\ report_pc = "idle"
    /\ pipeline = "none"
    /\ aggregate_calls = << >>
    /\ \E p \in {"enhanced", "smart"}, n \in 0..MaxItems :
        /\ pipeline' = p
        /\ total_questions' = n
    /\ report_pc' = "questions"
    /\ UNCHANGED << preserve_precision, individual_model_scores, all_question_results,
                    failed_questions, raised, big5_scores, mbti_type, aggVars,
                    engineVars, relVars, taskVars, evalVars,
                    trackerVars >>

\* ImprovedTransparentPipeline.__init__, the scores its caller stores on it and
\* the number of questions the caller is about to hand over
improved_pipeline ==
    /\ report_pc = "idle"
    /\ pipeline = "none"
    /\ aggregate_calls = << >>
    /\ \E pp \in BOOLEAN, ims \in ModelScoreSets, n \in 0..MaxItems :
        /\ preserve_precision' = pp
        /\ individual_model_scores' = ims
        /\ total_questions' = n
    /\ pipeline' = "improved"
    /\ report_pc' = "questions"
    /\ UNCHANGED << all_question_results, failed_questions, raised, big5_scores,
                    mbti_type, aggVars, engineVars, relVars, taskVars, evalVars,
                    trackerVars >>

\* one iteration of the loop of EnhancedTransparentPipeline.process_single_report:
\* process_single_question either returns a result or raises, and nothing catches it
enhanced_process_single_question ==
    /\ pipeline = "enhanced"
    /\ report_pc = "questions"
    /\ Len(all_question_results) < total_questions
    /\ \E name \in DimensionInputs, is_reversed \in BOOLEAN, h \in ConsensusScores,
          fatal \in BOOLEAN :
        IF fatal
        THEN /\ raised' = "Exception"
             /\ report_pc' = "raised"
             /\ UNCHANGED all_question_results
        ELSE /\ all_question_results' =
                    Append(all_question_results,
                           question_result(name, is_reversed, h, enhanced_expand(h, name)))
             /\ UNCHANGED << raised, report_pc >>
    /\ UNCHANGED << pipeline, preserve_precision, individual_model_scores,
                    total_questions, failed_questions, big5_scores, mbti_type, aggVars,
                    engineVars, relVars, taskVars, evalVars,
                    trackerVars >>

\* ImprovedTransparentPipeline.process_single_question, called once per question
improved_process_single_question ==
    /\ pipeline = "improved"
    /\ report_pc = "questions"
    /\ Len(all_question_results) < total_questions
    /\ \E name \in DimensionInputs, is_reversed \in BOOLEAN, h \in ConsensusScores :
        IF ~preserve_precision
        THEN /\ all_question_results' =
                    Append(all_question_results,
                           question_result(name, is_reversed, h,
                                           improved_expand_original(h, name)))
             /\ UNCHANGED << raised, report_pc >>
        ELSE IF improved_expand_raises(name, individual_model_scores)
        THEN /\ raised' = "KeyError"
             /\ report_pc' = "raised"
             /\ UNCHANGED all_question_results
        ELSE /\ all_question_results' =
                    Append(all_question_results,
                           question_result(name, is_reversed, h,
                                           improved_expand_precise(h, name,
                                                                   individual_model_scores)))
             /\ UNCHANGED << raised, report_pc >>
    /\ UNCHANGED << pipeline, preserve_precision, individual_model_scores,
                    total_questions, failed_questions, big5_scores, mbti_type, aggVars,
                    engineVars, relVars, taskVars, evalVars,
                    trackerVars >>

\* one iteration of the loop of SmartTransparentPipeline.process_single_report:
\* a question that raises is recorded with success False and counted
\* (the result's final_scores are kept in the field final_adjusted_scores)
smart_process_single_question ==
    /\ pipeline = "smart"
    /\ report_pc = "questions"
    /\ Len(all_question_results) < total_questions
    /\ \E final_scores \in SmartFinalScores, is_reversed \in BOOLEAN, fatal \in BOOLEAN :
        IF fatal
        THEN /\ all_question_results' =
                    Append(all_question_results,
                           [ question_result("", FALSE, 0, [ d \in DimSet |-> 0 ])
                               EXCEPT !.success = FALSE ])
             /\ failed_questions' = failed_questions + 1
        ELSE /\ all_question_results' =
                    Append(all_question_results,
                           question_result("", is_reversed, 0, final_scores))
             /\ UNCHANGED failed_questions
    /\ UNCHANGED << pipeline, preserve_precision, individual_model_scores, report_pc,
                    total_questions, raised, big5_scores, mbti_type, aggVars,
                    engineVars, relVars, taskVars, evalVars,
                    trackerVars >>

\* steps 3 to 6 of EnhancedTransparentPipeline.process_single_report
enhanced_report ==
    /\ pipeline = "enhanced"
    /\ report_pc = "questions"
    /\ Len(all_question_results) = total_questions
    /\ LET acc == collect(empty_scores_by_dimension, all_question_results, "enhanced")
       IN  /\ scores_by_dimension' = acc
           /\ big5_scores' = enhanced_big5(acc)
           /\ mbti_type' = calculate_mbti_type(enhanced_big5(acc))
    /\ report_pc' = "done"
    /\ UNCHANGED << pipeline, preserve_precision, individual_model_scores,
                    total_questions, all_question_results, failed_questions, raised,
                    aggregate_calls, engineVars, relVars, taskVars, evalVars,
                    trackerVars >>

\* ImprovedTransparentPipeline.calculate_big5_scores on the results of the questions
improved_report ==
    /\ pipeline = "improved"
    /\ report_pc = "questions"
    /\ Len(all_question_results) = total_questions
    /\ LET acc == collect(empty_scores_by_dimension, all_question_results, "improved")
       IN  /\ scores_by_dimension' = acc
           /\ big5_scores' = improved_big5(acc)
           /\ mbti_type' = improved_calculate_mbti_type(improved_big5(acc))
    /\ report_pc' = "done"
    /\ UNCHANGED << pipeline, preserve_precision, individual_model_scores,
                    total_questions, all_question_results, failed_questions, raised,
                    aggregate_calls, engineVars, relVars, taskVars, evalVars,
                    trackerVars >>

\* step 3 and the result of SmartTransparentPipeline.process_single_report
smart_report ==
    /\ pipeline = "smart"
    /\ report_pc = "questions"
    /\ Len(all_question_results) = total_questions
    /\ big5_scores' = calculate_big5_averages(all_question_results)
    /\ mbti_type' = infer_mbti_type(calculate_big5_averages(all_question_results))
    /\ report_pc' = "done"
    /\ UNCHANGED << pipeline, preserve_precision, individual_model_scores,
                    total_questions, all_question_results, failed_questions, raised,
                    aggVars, engineVars, relVars, taskVars, evalVars,
                    trackerVars >>

NextReport ==
    \/ process_single_report
    \/ improved_pipeline
    \/ enhanced_process_single_question
    \/ improved_process_single_question
    \/ smart_process_single_question
    \/ enhanced_report
    \/ improved_report
    \/ smart_report

SpecReport == Init /\ [][NextReport]_vars

----------------------------------------------------------------------------
(* Repeated calls of calculate_big5_scores on one pipeline object *)

\* question results as test_weighted_scoring.py builds them, and one whose
\* dimension is not recognised
MockResults ==
    { question_result("Conscientiousness", TRUE, 100,
                      [ d \in DimSet |-> IF d = "conscientiousness" THEN 100 ELSE 300 ]),
      question_result("Extraversion", FALSE, 500,
                      [ d \in DimSet |-> IF d = "extraversion" THEN 500
                                         ELSE IF d = "neuroticism" THEN 100 ELSE 300 ]),
      question_result("", FALSE, 100,
                      [ d \in DimSet |-> IF d = "conscientiousness" THEN 100 ELSE 300 ]) }

\* the longest list of the model is shorter than the calls it is handed in
MockResultLists == SeqsOf(MockResults, 0, 2)

\* one call of calculate_big5_scores (and of the typology) with its own list
calculate_big5_scores_call ==
    /\ report_pc = "idle"
    /\ Len(aggregate_calls) < MaxCalls
    /\ \E p \in (IF pipeline = "none" THEN {"enhanced", "improved"} ELSE {pipeline}),
          rs \in MockResultLists :
        LET acc == collect(empty_scores_by_dimension, rs, p)
            b == calculate_big5_scores(acc, p)
            t == IF p = "enhanced" THEN calculate_mbti_type(b)
                 ELSE improved_calculate_mbti_type(b)
        IN  /\ pipeline' = p
            /\ scores_by_dimension' = acc
            /\ big5_scores' = b
            /\ mbti_type' = t
            /\ aggregate_calls' =
                   Append(aggregate_calls,
                          [ question_results |-> rs, big5_scores |-> b, mbti_type |-> t ])
    /\ UNCHANGED << preserve_precision, individual_model_scores, report_pc,
                    total_questions, all_question_results, failed_questions, raised,
                    engineVars, relVars, taskVars, evalVars,
                    trackerVars >>

NextAggregator == calculate_big5_scores_call

SpecAggregator == Init /\ [][NextAggregator]_vars

----------------------------------------------------------------------------
(* Bounds and inputs of the questions processed side by side *)

\* rounds explored per question
MaxTaskRounds == 2

\* the three initial judgments of a question
TaskTriples == { << 1, 1, 5 >>, << 1, 5, 5 >>, << 1, 3, 5 >>, << 3, 3, 5 >> }

\* what adaptive_evaluator(2) may return
TaskAnswers == { << 1, 5 >>, << 5, 1 >>, << 3, 3 >>, << 5, 5 >>, << 1, 3 >> }

\* question_data['dimension'] of the questions
TaskDimensions == { "Extraversion" }

----------------------------------------------------------------------------
(* process_single_question_with_new_algorithms, one frame per call *)

\* the initial judgments, the validation of adaptive_consensus and the entry
\* into the first round
task_initial_scores(t) ==
    /\ frames[t].pc = "idle"
    /\ \E name \in TaskDimensions, is_reversed \in BOOLEAN, init \in TaskTriples :
        /\ valid_initial(init)
        /\ frames' = [ frames EXCEPT ![t] =
                         [ NoFrame EXCEPT !.pc = "process",
                                          !.question = [ dimension |-> name,
                                                         is_reversed |-> is_reversed ],
                                          !.initial_scores = init,
                                          !.scores = init,
                                          !.round_num = 1 ] ]
    /\ UNCHANGED << engineVars, relVars, reportVars, aggVars, evalVars,
                    trackerVars >>

\* one round of _adaptive_consensus_process on the frame's scores
task_consensus_process(t) ==
    /\ frames[t].pc = "process"
    /\ LET f == frames[t]
           current_diff == MaxSeq(f.scores) - MinSeq(f.scores)
       IN  \/ /\ branch_of(current_diff) = "perfect"
              /\ frames' = [ frames EXCEPT ![t].pc = "resolved",
                                 ![t].result = create_result(f.scores, 100 * MaxSeq(f.scores),
                                                             "perfect_consensus", f.round_num) ]
           \/ /\ branch_of(current_diff) = "minor"
              /\ frames' = [ frames EXCEPT ![t].pc = "resolved",
                                 ![t].result = create_result(f.scores, MeanRounded(f.scores),
                                                             "minor_consensus", f.round_num) ]
           \/ /\ branch_of(current_diff) = "major"
              /\ f.round_num < MaxTaskRounds
              /\ frames' = [ frames EXCEPT ![t].pc = "request",
                                 ![t].consolidated = consolidated_score(f.scores) ]
    /\ UNCHANGED << engineVars, relVars, reportVars, aggVars, evalVars,
                    trackerVars >>

\* faulty variant: the consolidated score is kept on the algorithm object, where
\* the call that asked first finds its own value and every other call finds that one
consolidated_of_shared(t) ==
    frames[CHOOSE u \in Tasks : frames[u].pc = "request"].consolidated

\* the local consolidated_score of the call
consolidated_of(t) == frames[t].consolidated

\* adaptive_evaluator(2) returns to the call that asked, which enters its next round
task_adaptive_evaluator(t) ==
    /\ frames[t].pc = "request"
    /\ \E new \in TaskAnswers :
        frames' = [ frames EXCEPT ![t].pc = "process",
                        ![t].scores = all_scores(consolidated_of(t), new),
                        ![t].round_num = frames[t].round_num + 1,
                        ![t].returned = Append(frames[t].returned, new) ]
    /\ UNCHANGED << engineVars, relVars, reportVars, aggVars, evalVars,
                    trackerVars >>

\* the reliability, the expansion and the reverse scoring of the resolved question
task_reliability_and_expansion(t) ==
    /\ frames[t].pc = "resolved"
    /\ LET f == frames[t]
           r == f.result
       IN  frames' = [ frames EXCEPT ![t].pc = "done",
                           ![t].reliability =
                               reliability_of(f.initial_scores, r.final_scores,
                                              r.consensus_method, r.processing_rounds),
                           ![t].final_adjusted_scores =
                               final_adjusted_scores(
                                   enhanced_expand(r.consensus_score, f.question.dimension),
                                   f.question.is_reversed) ]
    /\ UNCHANGED << engineVars, relVars, reportVars, aggVars, evalVars,
                    trackerVars >>

NextTasks ==
    \E t \in Tasks :
        \/ task_initial_scores(t)
        \/ task_consensus_process(t)
        \/ task_adaptive_evaluator(t)
        \/ task_reliability_and_expansion(t)

SpecTasks == Init /\ [][NextTasks]_vars

\* the recursion of _adaptive_consensus_process for one question processed alone
\* with the lists its evaluator returned, as far as they reach
RECURSIVE sequential_process(_, _, _)
sequential_process(s, rets, rnd) ==
    LET current_diff == MaxSeq(s) - MinSeq(s)
    IN  IF branch_of(current_diff) = "perfect"
        THEN create_result(s, 100 * MaxSeq(s), "perfect_consensus", rnd)
        ELSE IF branch_of(current_diff) = "minor"
        THEN create_result(s, MeanRounded(s), "minor_consensus", rnd)
        ELSE IF branch_of(current_diff) = "major" /\ rets # << >>
        THEN sequential_process(all_scores(consolidated_score(s), Head(rets)),
                                Tail(rets), rnd + 1)
        ELSE NoResult

----------------------------------------------------------------------------
(* SmartEvaluator (smart_evaluator.py).  All the calls of the model fall within *)
(* the five minutes in which a recorded failure counts as recent.              *)

\* calls of evaluate_with_fallback made on one evaluator
MaxEvaluations == 2

\* max_attempts of evaluate_with_fallback
max_attempts == 10

\* recent failures from which a model counts as unavailable
failure_threshold == 3

\* the records added for a failure that is an API limit
usage_limit_records == 5

\* preferred_models as the callers pass them
PreferredModelLists ==
    { << "deepseek-v3.1:671b-cloud", "qwen3-vl:235b-cloud" >>,
      << "gpt-oss:120b-cloud" >>,
      << "qwen3:8b" >> }

\* m.startswith('deepseek'), 'deepseek' in m
IsDeepseek(m) == m \in { "deepseek-v3.1:671b-cloud", "deepseek-r1:8b" }

\* m.startswith('qwen'), 'qwen' in m
IsQwen(m) == m \in { "qwen3-vl:235b-cloud", "qwen3:8b" }

\* the trait values of a response that holds a JSON object (tenths, 0: not named)
ResponseData ==
    { [ d \in DimSet |-> 40 ],
      [ d \in DimSet |-> IF d = "extraversion" THEN 50 ELSE 0 ],
      [ d \in DimSet |-> IF d = "extraversion" THEN 45
                         ELSE IF d = "conscientiousness" THEN 70 ELSE 20 ] }

\* what ollama.generate may do: answer with a JSON object, answer with text
\* that holds none, or raise (an API limit or another error)
Responses ==
    [ kind : {"json"}, data : ResponseData ]
        \cup [ kind : {"text", "error", "usage_limit"}, data : {NoResponse.data} ]

\* _is_model_available
is_model_available(model) == model_failures[model] < failure_threshold

\* min(available_models, key=model_last_used.get): the first of the least recently used
least_recently_used(available_models) ==
    available_models[
        CHOOSE i \in DOMAIN available_models :
            \A j \in DOMAIN available_models :
                /\ model_last_used[available_models[i]] <= model_last_used[available_models[j]]
                /\ j < i => model_last_used[available_models[j]]
                                > model_last_used[available_models[i]] ]

\* _select_best_model; "" stands for None
select_best_model(preferred) ==
    LET among_preferred == SelectSeq(preferred, is_model_available)
        available_models ==
            IF among_preferred # << >> THEN among_preferred
            ELSE SelectSeq(cloud_models \o local_models, is_model_available)
    IN  IF available_models = << >> THEN "" ELSE least_recently_used(available_models)

\* the if/elif chain over attempt
candidate_models(att, preferred) ==
    IF att = 0 THEN preferred
    ELSE IF att <= 3
    THEN IF \E i \in DOMAIN preferred : IsDeepseek(preferred[i])
         THEN SelectSeq(cloud_models, IsDeepseek)
         ELSE IF \E i \in DOMAIN preferred : IsQwen(preferred[i])
         THEN SelectSeq(cloud_models, IsQwen)
         ELSE cloud_models
    ELSE IF att <= 6 THEN cloud_models
    ELSE local_models

\* _parse_scores_from_response: data.get(trait, 3), int(round(value)) for a value
\* within 1..5 and 3 otherwise; 3 for every trait when no JSON object is found
parse_scores_from_response(r) ==
    IF r.kind = "json"
    THEN [ d \in DimSet |->
             LET value == IF r.data[d] = 0 THEN 30 ELSE r.data[d]
             IN  IF 10 <= value /\ value <= 50 THEN PyRound(10 * value) ELSE 3 ]
    ELSE [ d \in DimSet |-> 3 ]

\* _validate_scores
validate_scores(sc) == \A d \in DimSet : 1 <= sc[d] /\ sc[d] <= 5

\* _mark_model_failure
mark_model_failure(model, kind) ==
    [ model_failures EXCEPT ![model] =
        @ + 1 + (IF kind = "usage_limit" THEN usage_limit_records ELSE 0) ]

\* the call and the initialisation of its locals
evaluate_with_fallback ==
    /\ eval_pc \in {"idle", "returned", "raised"}
    /\ evaluations < MaxEvaluations
    /\ \E preferred \in PreferredModelLists : preferred_models' = preferred
    /\ evaluations' = evaluations + 1
    /\ attempt' = 0
    /\ attempted_models' = << >>
    /\ eval_pc' = "loop"
    /\ UNCHANGED << clock, model_last_used, model_failures, response, returned_scores,
                    engineVars, relVars, reportVars, aggVars, taskVars,
                    trackerVars >>

\* one iteration of the loop over range(max_attempts)
evaluate_attempt ==
    /\ eval_pc = "loop"
    /\ attempt < max_attempts
    /\ LET best_model == select_best_model(candidate_models(attempt, preferred_models))
       IN  IF best_model = ""
              \/ \E i \in DOMAIN attempted_models : attempted_models[i] = best_model
           THEN /\ attempt' = attempt + 1
                /\ UNCHANGED << eval_pc, attempted_models, clock, model_last_used,
                                model_failures, response, returned_scores >>
           ELSE \E r \in Responses :
                /\ attempted_models' = Append(attempted_models, best_model)
                /\ model_last_used' = [ model_last_used EXCEPT ![best_model] = clock ]
                /\ clock' = clock + 1
                /\ response' = r
                /\ IF r.kind \in {"error", "usage_limit"}
                   THEN /\ model_failures' = mark_model_failure(best_model, r.kind)
                        /\ attempt' = attempt + 1
                        /\ UNCHANGED << eval_pc, returned_scores >>
                   ELSE IF validate_scores(parse_scores_from_response(r))
                   THEN /\ returned_scores' = parse_scores_from_response(r)
                        /\ eval_pc' = "returned"
                        /\ UNCHANGED << attempt, model_failures >>
                   ELSE /\ model_failures' = mark_model_failure(best_model, "invalid")
                        /\ attempt' = attempt + 1
                        /\ UNCHANGED << eval_pc, returned_scores >>
    /\ UNCHANGED << evaluations, preferred_models,
                    engineVars, relVars, reportVars, aggVars, taskVars,
                    trackerVars >>

\* the raise after the loop
evaluate_raises ==
    /\ eval_pc = "loop"
    /\ attempt = max_attempts
    /\ eval_pc' = "raised"
    /\ UNCHANGED << evaluations, preferred_models, attempt, attempted_models, clock,
                    model_last_used, model_failures, response, returned_scores,
                    engineVars, relVars, reportVars, aggVars, taskVars,
                    trackerVars >>

NextEvaluator ==
    \/ evaluate_with_fallback
    \/ evaluate_attempt
    \/ evaluate_raises

SpecEvaluator == Init /\ [][NextEvaluator]_vars

----------------------------------------------------------------------------
(* ProgressTracker and ProcessingState (checkpoint/progress_tracker.py,       *)
(* checkpoint/models/processing_state.py).  The tracker is built with the     *)
(* default checkpoint_interval and auto_save; time stamps are left out and    *)
(* mark_file_completed is called without file_statistics.                     *)

\* checkpoint_interval of ProgressTracker.__init__
checkpoint_interval == 5

\* the questions assumed for a file whose number of questions is not known
default_questions == 50

\* file_list of start_new_session
FileLists == { << >>, << "a.json" >>, << "a.json", "b.json" >> }

\* total_questions of update_file_progress; 0 stands for None
QuestionCounts == { 0, 50, 60 }

\* current_question of update_file_progress
QuestionIndexes == { 0, 5, 50, 60 }

InSeq(x, s) == \E i \in DOMAIN s : s[i] = x

\* the total added for the files of processed_files[1..n]
processed_in_files(n) ==
    LET add(i) == IF file_progress[processed_files[i]].present
                  THEN file_progress[processed_files[i]].processed_questions
                  ELSE default_questions
        sum[k \in 0..n] == IF k = 0 THEN 0 ELSE sum[k - 1] + add(k)
    IN  sum[n]

\* ProcessingState.get_total_processed_questions
get_total_processed_questions ==
    processed_in_files(Len(processed_files))
        + (IF current_file_path \notin {"", "None"}
              /\ ~InSeq(current_file_path, processed_files)
           THEN current_question_index ELSE 0)

\* ProcessingState.get_total_questions
get_total_questions ==
    IF total_files > 0 THEN total_files * default_questions ELSE 0

\* ProcessingState.get_progress_percentage, as a fraction
get_progress_percentage ==
    IF get_total_questions = 0 THEN Frac(0, 1)
    ELSE Frac(get_total_processed_questions * 100, get_total_questions)

start_new_session ==
    /\ \E file_list \in FileLists : total_files' = Len(file_list)
    /\ session_id' = "session"
    /\ current_file_path' = ""
    /\ current_question_index' = 0
    /\ processed_files' = << >>
    /\ file_progress' = [ f \in Files |-> NoProgress ]
    /\ checkpoint_reason' = "session_start"
    /\ last_checkpoint_question_count' = 0
    /\ UNCHANGED << engineVars, relVars, reportVars, aggVars, taskVars, evalVars >>

update_file_progress ==
    /\ session_id # "none"
    /\ \E file_path \in Files, current_question \in QuestionIndexes,
          file_questions \in QuestionCounts :
        LET created ==
                IF file_progress[file_path].present THEN file_progress[file_path]
                ELSE [ present |-> TRUE,
                       total_questions |->
                           IF file_questions # 0 THEN file_questions
                           ELSE default_questions,
                       processed_questions |-> 0,
                       completed |-> FALSE ]
            should_save ==
                current_question - last_checkpoint_question_count >= checkpoint_interval
        IN  /\ current_file_path' = file_path
            /\ current_question_index' = current_question
            /\ file_progress' =
                 [ file_progress EXCEPT ![file_path] =
                     [ created EXCEPT
                         !.total_questions =
                             IF file_questions # 0 THEN file_questions ELSE @,
                         !.processed_questions = MaxOf(@, current_question) ] ]
            /\ IF should_save
               THEN /\ checkpoint_reason' = "interval_reached"
                    /\ last_checkpoint_question_count' = current_question
               ELSE UNCHANGED << checkpoint_reason, last_checkpoint_question_count >>
    /\ UNCHANGED << session_id, total_files, processed_files,
                    engineVars, relVars, reportVars, aggVars, taskVars, evalVars >>

mark_file_completed ==
    /\ session_id # "none"
    /\ \E file_path \in Files :
        /\ processed_files' =
             IF InSeq(file_path, processed_files) THEN processed_files
             ELSE Append(processed_files, file_path)
        /\ file_progress' =
             IF file_progress[file_path].present
             THEN [ file_progress EXCEPT ![file_path].completed = TRUE ]
             ELSE file_progress
    /\ current_file_path' = "None"
    /\ current_question_index' = 0
    /\ last_checkpoint_question_count' = 0
    /\ checkpoint_reason' = "file_completed"
    /\ UNCHANGED << session_id, total_files,
                    engineVars, relVars, reportVars, aggVars, taskVars, evalVars >>

NextTracker ==
    \/ start_new_session
    \/ update_file_progress
    \/ mark_file_completed

SpecTracker == Init /\ [][NextTracker]_vars

----------------------------------------------------------------------------
(* Properties of the consensus engine *)

Abs(x) == IF x < 0 THEN -x ELSE x

\* the initial list is a triple of scale values
WellFormedInitial ==
    /\ Len(initial_scores) = 3
    /\ \A i \in DOMAIN initial_scores : initial_scores[i] \in {1, 3, 5}

InitialSpread == MaxSeq(initial_scores) - MinSeq(initial_scores)

\* C1: the number of raw judgments obtained for the item never exceeds
\* max_evaluators, in any round and in the returned result (stated for the
\* resolutions in which every request returned the scores it was asked for).
C1_EvaluatorCountBounded ==
    (failures = 0 /\ ~shortfall) => judgments <= max_evaluators

\* C2: a round with spread 4 that starts when the evaluator count has reached
\* max_evaluators asks for no further scores and ends the resolution as forced:
\* the score farthest from the median is dropped, the mean of the others is
\* reported, and the evaluator count is max_evaluators.
C2_ForcedAtCap ==
    [][ ( /\ pc = "process"
          /\ MaxSeq(scores) - MinSeq(scores) = 4
          /\ judgments >= max_evaluators
          /\ failures = 0
          /\ ~shortfall )
        => ( /\ pc' = "done"
             /\ requests' = requests
             /\ judgments' = max_evaluators
             /\ result'.consensus_method = "forced_consensus"
             /\ result'.consensus_score = MeanRounded(remove_max_bias(scores, 1)) )
      ]_vars

\* C3: once get_additional_scores returned fewer scores than requested, or
\* raised, the resolution ends in an error and never in a result.
C3_ShortfallRaises ==
    /\ (shortfall => pc # "done")
    /\ (err = "EvaluatorFailure" => pc = "error" /\ result = NoResult)

\* C4: no result is ever produced for an item one of whose judgments failed
\* while it was being acquired (the failure reaches the caller instead).
C4_FailurePropagates == failures > 0 => pc # "done"

\* C5: an initial list that is not a triple of scale values is rejected with an
\* input error before anything is requested, and no result is produced.
C5_InputRejected ==
    (caller = "direct" /\ ~WellFormedInitial)
        => /\ pc = "error"
           /\ err = "ValueError"
           /\ requests = 0
           /\ result = NoResult

C5_Witness ==
    /\ caller = "direct"
    /\ pc = "error"
    /\ Len(initial_scores) = 3
    /\ \E i \in DOMAIN initial_scores : initial_scores[i] = 2

\* C6: an initial triple with spread 0 is resolved in the first round, without
\* a request, as perfect, and the consensus score is the common value.
C6_PerfectOnSpreadZero ==
    (WellFormedInitial /\ InitialSpread = 0)
        => /\ pc \in {"process", "done"}
           /\ requests = 0
           /\ pc = "done" =>
                /\ result.consensus_method = "perfect_consensus"
                /\ result.consensus_score = 100 * initial_scores[1]
                /\ result.final_scores = initial_scores

C6_Witness ==
    /\ pc = "done"
    /\ initial_scores = << 5, 5, 5 >>
    /\ result.consensus_score = 500

\* C7: an initial triple with spread at most 2 and not 0 is resolved in the
\* first round as minor, and the consensus score is the mean of the three
\* scores to two decimals (3.67 for [3,3,5]).
C7_MinorIsMean ==
    (WellFormedInitial /\ InitialSpread \in 1..2)
        => /\ pc \in {"process", "done"}
           /\ requests = 0
           /\ pc = "done" =>
                /\ result.consensus_method = "minor_consensus"
                /\ 2 * Abs(3 * result.consensus_score - 100 * SumSeq(initial_scores)) <= 3
                /\ initial_scores = << 3, 3, 5 >> => result.consensus_score = 367

C7_Witness ==
    /\ pc = "done"
    /\ initial_scores = << 3, 3, 5 >>
    /\ result.consensus_method = "minor_consensus"

\* C8: for the initial triple [1,3,5] the consolidated value is the mean 3; when
\* the request returns [3,3] the second round works on [3,3,3] and the result is
\* perfect with consensus score 3.0 and two rounds used.
C8_SplitTripleExample ==
    initial_scores = << 1, 3, 5 >>
        => /\ (pc = "request" /\ round_num = 1) => consolidated = 3
           /\ (round_num = 2 /\ new_scores = << 3, 3 >>)
                => /\ scores = << 3, 3, 3 >>
                   /\ pc \in {"process", "done"}
                   /\ pc = "done" =>
                        /\ result.consensus_method = "perfect_consensus"
                        /\ result.consensus_score = 300
                        /\ result.processing_rounds = 2

C8_Witness ==
    /\ initial_scores = << 1, 3, 5 >>
    /\ new_scores = << 3, 3 >>
    /\ pc = "done"
    /\ result.processing_rounds = 2

----------------------------------------------------------------------------
(* Properties of the reliability calculator (under SpecRel) *)

Calculated == relIn.consensus_method # "none"

\* C9: the overall reliability and each of the four sub-scores lie in [0,1].
C9_MetricsInUnitInterval ==
    Calculated =>
        /\ relOut.overall_reliability \in 0..1000
        /\ relOut.consensus_quality \in 0..1000
        /\ relOut.evaluator_diversity \in 0..1000
        /\ relOut.processing_efficiency \in 0..1000
        /\ relOut.final_agreement \in 0..1000

C9_Witness ==
    /\ relIn.consensus_method = "perfect_consensus"
    /\ relIn.original_scores = << 1, 1, 5 >>
    /\ relIn.final_scores = << 3, 3, 3 >>
    /\ relOut.consensus_quality = 1000

\* C10: a perfect resolution of three scores is at least as reliable overall
\* as a forced one with the same score lists and the same number of rounds.
C10_PerfectAtLeastForced ==
    (relIn.consensus_method = "perfect_consensus" /\ Len(relIn.final_scores) = 3)
        => relOut.overall_reliability
             >= reliability_of(relIn.original_scores, relIn.final_scores,
                               "forced_consensus",
                               relIn.processing_rounds).overall_reliability

C10_Witness ==
    /\ relIn.consensus_method = "perfect_consensus"
    /\ Len(relIn.final_scores) = 3
    /\ relOut.overall_reliability
         > reliability_of(relIn.original_scores, relIn.final_scores,
                          "forced_consensus",
                          relIn.processing_rounds).overall_reliability

----------------------------------------------------------------------------
(* Properties of the aggregation *)

\* the report of the enhanced or improved pipeline has been aggregated
Aggregated == report_pc = "done" /\ pipeline \in {"enhanced", "improved"}

\* the name under which a question names dimension d as its own
DisplayName(d) ==
    CASE d = "openness_to_experience" -> "Openness to Experience"
      [] d = "conscientiousness" -> "Conscientiousness"
      [] d = "extraversion" -> "Extraversion"
      [] d = "agreeableness" -> "Agreeableness"
      [] d = "neuroticism" -> "Neuroticism"

\* weight 0.7 = 28/40 for the item's own dimension, 0.075 = 3/40 otherwise
StatedWeight(d, r) == IF r.dimension = DisplayName(d) THEN 28 ELSE 3

\* numerator and denominator of the weighted mean of dimension d over all items
StatedSum(d) ==
    SumSeq([ i \in DOMAIN all_question_results |->
               all_question_results[i].final_adjusted_scores[d]
                 * StatedWeight(d, all_question_results[i]) ])

StatedTotal(d) ==
    SumSeq([ i \in DOMAIN all_question_results |->
               StatedWeight(d, all_question_results[i]) ])

\* C11 as stated: for each dimension d the trait score is exactly the weighted
\* mean, over all items of the respondent, of the items' values of d, with
\* weight 0.7 for an item whose primary dimension is d and 0.075 otherwise.
C11_ExactWeightedMean ==
    (Aggregated /\ all_question_results # << >>) =>
        \A d \in DimSet :
            big5_scores[d].num * StatedTotal(d) = StatedSum(d) * big5_scores[d].den

\* C11 amended: for each dimension d the trait score is the weighted mean over
\* all items (weight 0.7 for an item whose primary dimension is d, 0.075
\* otherwise; no item left out), exactly in the improved pipeline and rounded
\* to two decimals in the enhanced pipeline.
C11_WeightedMean ==
    (Aggregated /\ all_question_results # << >>) =>
        \A d \in DimSet :
            /\ big5_scores[d].den > 0
            /\ pipeline = "improved" =>
                 big5_scores[d].num * StatedTotal(d) = StatedSum(d) * big5_scores[d].den
            /\ pipeline = "enhanced" =>
                 /\ big5_scores[d].den = 1
                 /\ 2 * Abs(big5_scores[d].num * StatedTotal(d) - StatedSum(d))
                      <= StatedTotal(d)

\* two items of different primary dimensions: extraversion is (5 * 0.7 + 3 * 0.075)
\* / 0.775 = 4.806..., reported as 4.81
C11_Witness ==
    /\ Aggregated
    /\ pipeline = "enhanced"
    /\ Len(all_question_results) = 2
    /\ all_question_results[1].dimension = "Extraversion"
    /\ all_question_results[2].dimension = "Neuroticism"
    /\ all_question_results[1].final_adjusted_scores["extraversion"] = 500
    /\ big5_scores["extraversion"] = Frac(481, 1)

\* all items have the same dimension name and the same five values
IdenticalItems ==
    \A i, j \in DOMAIN all_question_results :
        /\ all_question_results[i].dimension = all_question_results[j].dimension
        /\ all_question_results[i].final_adjusted_scores
             = all_question_results[j].final_adjusted_scores

C13_NoStateBetweenCalls ==
    \A i, j \in DOMAIN aggregate_calls :
        aggregate_calls[i].question_results = aggregate_calls[j].question_results =>
            /\ aggregate_calls[i].big5_scores = aggregate_calls[j].big5_scores
            /\ aggregate_calls[i].mbti_type = aggregate_calls[j].mbti_type

\* the same list aggregated before and after a call with another list
C13_Witness ==
    /\ Len(aggregate_calls) = 3
    /\ aggregate_calls[1].question_results # << >>
    /\ aggregate_calls[2].question_results # << >>
    /\ aggregate_calls[1].question_results # aggregate_calls[2].question_results
    /\ aggregate_calls[1].question_results = aggregate_calls[3].question_results
    /\ aggregate_calls[1].big5_scores # aggregate_calls[2].big5_scores

----------------------------------------------------------------------------
(* Properties of the typology, the expansion and the reverse scoring *)

\* the four axes as stated, from the trait scores O, C, E, A, N
StatedCode(b) ==
    (IF b["extraversion"].num * b["neuroticism"].den
          + (500 * b["neuroticism"].den - b["neuroticism"].num) * b["extraversion"].den
        > (500 * b["extraversion"].den - b["extraversion"].num) * b["neuroticism"].den
          + b["neuroticism"].num * b["extraversion"].den
     THEN "E" ELSE "I")
      \o (IF b["openness_to_experience"].num <= 300 * b["openness_to_experience"].den
          THEN "S" ELSE "N")
      \o (IF b["agreeableness"].num <= 300 * b["agreeableness"].den THEN "T" ELSE "F")
      \o (IF b["conscientiousness"].num > 300 * b["conscientiousness"].den
          THEN "J" ELSE "P")

\* C14: the typology code derived from the trait scores is always exactly the
\* four letters axis1 axis2 axis3 axis4, with axis1 = E if E + (5 - N) >
\* (5 - E) + N else I, axis2 = S if O <= 3 else N, axis3 = T if A <= 3
\* else F, axis4 = J if C > 3 else P.
C14_TypologyCode ==
    (report_pc = "done" /\ big5_scores # NoScores) =>
        /\ Len(mbti_type) = 4
        /\ mbti_type = StatedCode(big5_scores)

\* a question was resolved in the neutral-fill mode
NeutralFill == pipeline = "enhanced" \/ (pipeline = "improved" /\ ~preserve_precision)

\* the dimension key a recognised dimension name stands for
Recognised(name) ==
    name \in { "Openness to Experience", "Conscientiousness", "Extraversion",
               "Agreeableness", "Neuroticism" }

KeyOf(name) == CHOOSE d \in DimSet : DisplayName(d) = name

\* v is a value of the scale nearest to x
Nearest(v, x) ==
    /\ v \in {100, 300, 500}
    /\ \A s \in {100, 300, 500} : Abs(v - x) <= Abs(s - x)

\* C15: expand always returns a vector with exactly the five dimension keys,
\* in both fill modes, for every consensus score and every item, also for an
\* item whose primary dimension is missing or unrecognised and for an item
\* with partial or no per-evaluator multi-dimension data.
C15_ExpandReturnsFiveKeys ==
    /\ raised # "KeyError"
    /\ pipeline \in {"enhanced", "improved"} =>
         \A i \in DOMAIN all_question_results :
             DOMAIN all_question_results[i].expanded = DimSet

\* C16: in neutral-fill mode the primary dimension's value is the consensus
\* score snapped to the nearest value of the scale {1, 3, 5} (a value on the
\* scale is unchanged, 3 stays 3) and each of the other four dimensions is 3.
C16_SnapToNearest ==
    NeutralFill =>
        \A i \in DOMAIN all_question_results :
            LET r == all_question_results[i]
            IN  Recognised(r.dimension) =>
                    /\ Nearest(r.expanded[KeyOf(r.dimension)], r.consensus_score)
                    /\ r.consensus_score \in {100, 300, 500} =>
                         r.expanded[KeyOf(r.dimension)] = r.consensus_score
                    /\ \A d \in DimSet \ {KeyOf(r.dimension)} : r.expanded[d] = 300

\* C17: for a reverse-keyed item v -> 6 - v is applied to the primary
\* dimension's consensus score, so in neutral-fill mode the primary value is
\* the snap of 6 - consensus_score and the other four dimensions are 3; for an
\* item that is not reverse-keyed no value is changed.
C17_ReverseOfPrimary ==
    NeutralFill =>
        \A i \in DOMAIN all_question_results :
            LET r == all_question_results[i]
            IN  Recognised(r.dimension) =>
                    IF r.is_reversed
                    THEN /\ Nearest(r.final_adjusted_scores[KeyOf(r.dimension)],
                                    600 - r.consensus_score)
                         /\ \A d \in DimSet \ {KeyOf(r.dimension)} :
                                r.final_adjusted_scores[d] = 300
                    ELSE r.final_adjusted_scores = r.expanded

\* C18: reverse scoring is an involution on the scale: reversing a reversed
\* value gives the value back, with 1 -> 5, 5 -> 1 and 3 -> 3.
C18_ReverseInvolution ==
    NeutralFill =>
        \A i \in DOMAIN all_question_results :
            LET r == all_question_results[i]
            IN  r.is_reversed =>
                    \A d \in DimSet :
                        /\ r.expanded[d] \in {100, 300, 500}
                        /\ final_adjusted_scores(r.final_adjusted_scores, TRUE)[d]
                             = r.expanded[d]
                        /\ r.expanded[d] = 100 => r.final_adjusted_scores[d] = 500
                        /\ r.expanded[d] = 500 => r.final_adjusted_scores[d] = 100
                        /\ r.expanded[d] = 300 => r.final_adjusted_scores[d] = 300

\* a reverse-keyed item whose primary value 1 became 5 while its neutral 3 stayed
C18_Witness ==
    /\ NeutralFill
    /\ \E i \in DOMAIN all_question_results :
        /\ all_question_results[i].is_reversed
        /\ all_question_results[i].expanded["extraversion"] = 100
        /\ all_question_results[i].final_adjusted_scores["extraversion"] = 500
        /\ all_question_results[i].final_adjusted_scores["neuroticism"] = 300

\* C19: an item whose primary dimension is missing or unrecognised does not
\* abort the aggregation: the trait scores are produced, and the item counts in
\* all five dimensions with weight 0.075 and in none with weight 0.7.
C19_UnrecognisedDimension ==
    Aggregated =>
        \A i \in DOMAIN all_question_results :
            ~Recognised(all_question_results[i].dimension) =>
                \A d \in DimSet :
                    /\ big5_scores[d].den > 0
                    /\ Len(scores_by_dimension[d]) = Len(all_question_results)
                    /\ scores_by_dimension[d][i].score
                         = all_question_results[i].final_adjusted_scores[d]
                    /\ scores_by_dimension[d][i].weight = 3

\* an item without a dimension, aggregated together with a recognised one
C19_Witness ==
    /\ Aggregated
    /\ pipeline = "enhanced"
    /\ Len(all_question_results) = 2
    /\ all_question_results[1].dimension = ""
    /\ all_question_results[1].final_adjusted_scores["conscientiousness"] = 500
    /\ all_question_results[2].dimension = "Extraversion"
    /\ big5_scores["conscientiousness"] = Frac(400, 1)

\* C20: when the resolution of one item of a respondent fails fatally, the
\* remaining items are still resolved and aggregated, and the failure stays
\* visible in the respondent's output.
C20_FailureKeepsRest ==
    /\ pipeline \in {"enhanced", "smart"} => report_pc # "raised"
    /\ (pipeline \in {"enhanced", "smart"} /\ report_pc = "done") =>
         /\ Len(all_question_results) = total_questions
         /\ failed_questions
              = Cardinality({ i \in DOMAIN all_question_results :
                                ~all_question_results[i].success })

----------------------------------------------------------------------------
(* Properties of questions processed side by side (under SpecTasks) *)

\* C21: whatever the interleaving of the calls of several questions on the same
\* algorithm, calculator and pipeline objects, every question gets the consensus
\* result, the reliability and the dimension scores it gets when it is processed
\* alone with the same judgments.
C21_ItemsIndependent ==
    \A t \in Tasks :
        LET f == frames[t]
            alone == sequential_process(f.initial_scores, f.returned, 1)
        IN  /\ f.pc \in {"resolved", "done"} => f.result = alone
            /\ f.pc = "done" =>
                 /\ f.reliability =
                        reliability_of(f.initial_scores, alone.final_scores,
                                       alone.consensus_method, alone.processing_rounds)
                 /\ f.final_adjusted_scores =
                        [ d \in DimSet |->
                            LET v == IF d = enhanced_get_primary_dimension(f.question.dimension)
                                     THEN snap(alone.consensus_score) ELSE 300
                            IN  IF f.question.is_reversed THEN reverse_score(v) ELSE v ]

C21_Witness ==
    /\ \A t \in Tasks : frames[t].pc = "done" /\ Len(frames[t].returned) = 1
    /\ frames[1].initial_scores = << 1, 1, 5 >>
    /\ frames[1].consolidated = 1
    /\ frames[1].result.consensus_score = 233
    /\ frames[2].initial_scores = << 1, 5, 5 >>
    /\ frames[2].consolidated = 5
    /\ frames[2].result.consensus_score = 500

----------------------------------------------------------------------------
(* Properties of the terms of the reliability (under SpecRel) *)

SpreadOf(s) == MaxSeq(s) - MinSeq(s)

\* the base values as stated, in thousandths (the result of a round entered after
\* a consolidation carries extended_consensus)
StatedBase(method) ==
    CASE method = "perfect_consensus" -> 1000
      [] method = "minor_consensus" -> 800
      [] method = "extended_consensus" -> 500
      [] method = "forced_consensus" -> 400

StatedMethods ==
    { "perfect_consensus", "minor_consensus", "extended_consensus", "forced_consensus" }

\* C22: the consensus quality is the base value of the result's method (perfect
\* 1.0, minor 0.8, consolidated-recurse 0.5, forced 0.4) plus a boost between 0
\* and 0.2, and the boost does not shrink when the final spread is smaller against
\* the same first round (stated for results whose final spread does not exceed
\* the first round's).
C22_QualityBasePlusBoost ==
    ( /\ Calculated
      /\ relIn.consensus_method \in StatedMethods
      /\ SpreadOf(relIn.final_scores) <= SpreadOf(relIn.original_scores) )
        => /\ relOut.consensus_quality - StatedBase(relIn.consensus_method) \in 0..200
           /\ \A final \in SeqsOf(allowed_scores, 1, MaxFinalLen) :
                SpreadOf(final) <= SpreadOf(relIn.final_scores)
                    => Round3(assess_consensus_quality(relIn.original_scores, final,
                                                       relIn.consensus_method), 0, final)
                         >= relOut.consensus_quality

\* the order of the methods as stated: perfect, minor, consolidated-recurse, forced
StatedCostRank(method) ==
    CASE method = "perfect_consensus" -> 1
      [] method = "minor_consensus" -> 2
      [] method = "extended_consensus" -> 3
      [] method = "forced_consensus" -> 4

\* C23: the processing efficiency is the average of a term of the rounds and a
\* term of the method: with the same method the result with fewer rounds has
\* the higher value, and with the same rounds the values are ordered
\* perfect > minor > consolidated-recurse > forced.
C23_EfficiencyOrdered ==
    (Calculated /\ relIn.consensus_method \in StatedMethods)
        => /\ \A rounds \in 1..MaxRelRounds :
                rounds < relIn.processing_rounds
                    => Round3(assess_processing_efficiency(rounds, relIn.consensus_method),
                              0, relIn.final_scores)
                         > relOut.processing_efficiency
           /\ \A method \in StatedMethods :
                StatedCostRank(method) < StatedCostRank(relIn.consensus_method)
                    => Round3(assess_processing_efficiency(relIn.processing_rounds, method),
                              0, relIn.final_scores)
                         > relOut.processing_efficiency

----------------------------------------------------------------------------
(* Further properties of the consensus engine (under Spec) *)

\* C24: whenever a result has the method perfect, all the scores it counts
\* (final_scores) are identical.
C24_PerfectMeansIdentical ==
    result.consensus_method = "perfect_consensus"
        => \A i, j \in DOMAIN result.final_scores :
               result.final_scores[i] = result.final_scores[j]

C24_Witness ==
    /\ pc = "done"
    /\ result.consensus_method = "perfect_consensus"
    /\ initial_scores = << 1, 1, 5 >>
    /\ result.final_scores = << 1, 1, 1 >>
    /\ result.processing_rounds = 2

----------------------------------------------------------------------------
(* Properties of the evaluator (under SpecEvaluator) *)

\* C25: evaluate_with_fallback never returns default scores: a dictionary it
\* returns holds, for every trait, the value the model gave in its response; a
\* call makes at most 10 attempts, tries no model twice, and raises RuntimeError
\* when no model it tried gave such a response.
C25_NoDefaultScores ==
    /\ eval_pc = "returned"
         => /\ response.kind = "json"
            /\ \A d \in DimSet : response.data[d] = 10 * returned_scores[d]
    /\ attempt <= 10
    /\ Len(attempted_models) <= 10
    /\ \A i, j \in DOMAIN attempted_models :
           attempted_models[i] = attempted_models[j] => i = j
    /\ eval_pc = "raised" => response.kind \in {"none", "error", "usage_limit"}

----------------------------------------------------------------------------
(* Properties of the rounds of the consensus engine (under Spec) *)

\* C26: while every request returns the two valid scores it was asked for, one
\* resolution makes at most 2 requests for further scores (the evaluator cap 7
\* reached from 3 initial judgments), however long the spread stays 4, so that
\* the resolution ends with its one result after at most 3 rounds.
C26_RequestsBounded ==
    (failures = 0 /\ ~shortfall)
        => /\ requests <= 2
           /\ round_num <= 3

\* a value repeats in the list
Repeats(s) == \E i, j \in DOMAIN s : i # j /\ s[i] = s[j]

\* c is the median of s if a value repeats in s and its arithmetic mean otherwise
StatedConsolidation(c, s) ==
    IF Repeats(s) THEN 2 * c = 2 * SortedAt(s, 2) ELSE c * Len(s) = SumSeq(s)

\* C27: a round with spread 4 below the evaluator cap consolidates its three
\* values into the median if a value repeats and into the arithmetic mean
\* otherwise, and when the two new scores arrive the next round works on exactly
\* [consolidated value, new score 1, new score 2] with the round count one higher.
C27_ConsolidateAndExtend ==
    [][ /\ ( /\ pc = "process"
             /\ Len(scores) = 3
             /\ MaxSeq(scores) - MinSeq(scores) = 4
             /\ judgments < max_evaluators )
          => ( /\ pc' = "request"
               /\ StatedConsolidation(consolidated', scores)
               /\ scores' = scores
               /\ round_num' = round_num )
        /\ ( /\ pc = "request"
             /\ judgments < max_evaluators
             /\ pc' = "process"
             /\ Len(new_scores') = 2 )
          => ( /\ scores' = << consolidated, new_scores'[1], new_scores'[2] >>
               /\ round_num' = round_num + 1 )
      ]_vars

C27_Witness ==
    /\ pc = "process"
    /\ initial_scores = << 1, 3, 5 >>
    /\ round_num = 2
    /\ consolidated = 3
    /\ scores = << 3, 1, 5 >>
    /\ judgments = 5

\* C28: further scores are requested only in a round whose spread is 4, once
\* in each such round and two at a time; a round that ends as perfect or minor
\* requests nothing, and the rounds reported in the result are 1 plus the
\* number of requests made.
C28_RequestsOnlyOnSpreadFour ==
    /\ pc = "request" => /\ MaxSeq(scores) - MinSeq(scores) = 4
                         /\ requests = round_num - 1
    /\ pc = "process" => requests = round_num - 1
    /\ Len(new_scores) <= 2
    /\ pc = "done" => /\ result.processing_rounds = requests + 1
                      /\ round_num = requests + 1

C28_Witness ==
    /\ pc = "done"
    /\ requests = 2
    /\ result.processing_rounds = 3
    /\ result.consensus_method = "minor_consensus"

\* C29: as long as every request returned exactly 2 scale values, the list of
\* every round has exactly 3 elements, each of them 1, 3 or 5 (the consolidated
\* value is a scale value itself), so the spread of the round is 0, 2 or 4 and
\* the error for an abnormal spread is never raised.
C29_RoundsStayOnScale ==
    ~shortfall
        => /\ pc \in {"process", "request", "done"}
                => /\ Len(scores) = 3
                   /\ \A i \in DOMAIN scores : scores[i] \in {1, 3, 5}
                   /\ MaxSeq(scores) - MinSeq(scores) \in {0, 2, 4}
           /\ round_num >= 2 => consolidated \in {1, 3, 5}
           /\ err = "ValueError" => round_num = 0

C29_Witness ==
    /\ ~shortfall
    /\ pc = "process"
    /\ round_num = 3
    /\ consolidated = 5
    /\ scores = << 5, 1, 5 >>

----------------------------------------------------------------------------
(* Properties of the progress tracker (under SpecTracker) *)

\* C30: in every state the tracker reaches through start_new_session,
\* update_file_progress and mark_file_completed, the progress percentage of the
\* processing state lies between 0 and 100.
C30_PercentageInRange ==
    session_id # "none"
        => /\ 0 <= get_progress_percentage.num
           /\ get_progress_percentage.num <= 100 * get_progress_percentage.den

====
